---- MODULE Spec2Model ----
(***************************************************************************)
(* A model of LandmarkDetector::Patch_experts (Patch_experts.cpp): the     *)
(* patch-expert store, its loader Read, the view selector GetViewIdx, the  *)
(* visibility collector Collect_visible_landmarks, the response            *)
(* orchestrator Response and the copy constructor.                         *)
(*                                                                         *)
(* std::vector and cv::Mat are functions over 0..k-1 ("vectors"), so the   *)
(* indices of the model are the indices of the source.  Angles are kept in *)
(* fixed point (1/1000 rad).  An appearance model is kept by what the      *)
(* store's code reads of it: whether its bias vector is empty.             *)
(***************************************************************************)
EXTENDS Integers, Sequences, FiniteSets, TLC

\* ------------------------------------------------------------------ bounds
\* rows of every visibility vector a model file holds (its landmark count)
NumLmk == 3
\* views a model file holds at most
MaxViews == 2
\* paths per representation handed to one Read
MaxScales == 1
\* Read calls in one behaviour
MaxReads == 2
\* largest magnitude of a pose component or view centre on the selector's grid
MaxAngle == 1
\* writes in place to the matrices of a store and its copy
MaxWrites == 1
\* largest number of views of a CEN file where the mirrored dispatch is run on
\* its own (three views: frontal, and a profile view with its mirror view)
MaxCenViews == 3

\* M_PI, in 1/1000
M_PI_milli == 3142

\* ----------------------------------------------------------------- vectors
Size(v) == Cardinality(DOMAIN v)

EmptyVec == << >>

Vec(k, F(_)) == [j \in 0..(k - 1) |-> F(j)]

\* std::vector::resize: keeps the first k entries, value-initialises the rest
Resize(v, k, fill) == [j \in 0..(k - 1) |-> IF j \in DOMAIN v THEN v[j] ELSE fill]

Range(s) == {s[j] : j \in DOMAIN s}

\* ------------------------------------------------------------- model files
\* What a path names: no readable file, or a model file of one representation.
\* A file is described by its view count and the landmark its frontal
\* visibility vector hides (-1: none; view v hides landmark (hide + v) % NumLmk).
\* The CEN files keep the format's conventions: the mirror tables are
\* involutions, and of a mirror pair the lower landmark holds the parameters.
Missing == [kind |-> "missing"]

SVRFiles == [kind : {"svr"}, nv : 1..MaxViews, hide : {0}]

CCNFFiles == [kind : {"ccnf"}, nv : 1..MaxViews, hide : {0}]

CENFiles == [kind : {"cen"}, nv : 1..MaxViews, hide : -1..(NumLmk - 1)]

IsOpen(f) == f.kind # "missing"

\* the left-right pairing the CEN files use: 0 is its own mirror, then (1,2), (3,4), ...
PairMirror(k, j) ==
    IF j = 0 THEN 0
    ELSE IF j % 2 = 1 THEN (IF j + 1 < k THEN j + 1 ELSE j)
    ELSE j - 1

\* centre of view v as the file stores it, in degrees: 0, -30, 30, -60, ...
FileCenterDeg(v) ==
    << 0, IF v % 2 = 1 THEN -30 * ((v + 1) \div 2) ELSE 30 * (v \div 2), 0 >>

FileVisibility(f, v) ==
    Vec(NumLmk, LAMBDA j : IF f.hide # -1 /\ j = (f.hide + v) % NumLmk THEN 0 ELSE 1)

\* does the CEN file hold real parameters (a non-empty bias vector) at (v, j)
FileHasBiases(f, v, j) ==
    LET mv == PairMirror(f.nv, v)
        mj == PairMirror(NumLmk, j)
    IN  IF mv = v
        THEN j <= mj
        ELSE v < mv

\* ------------------------------------------------------------------- state
VARIABLES
    centers, visibilities, patch_scaling,
    svr_expert_intensity, ccnf_expert_intensity, cen_expert_intensity,
    sigma_components, mirror_inds, mirror_views,
    early_term_weights, early_term_biases, early_term_cutoffs,
    reads, lastRead,
    pc, call, vis_lmk, patch_expert_responses, events,
    copy, lastWrite

storeVars ==
    << centers, visibilities, patch_scaling,
       svr_expert_intensity, ccnf_expert_intensity, cen_expert_intensity,
       sigma_components, mirror_inds, mirror_views,
       early_term_weights, early_term_biases, early_term_cutoffs >>

callVars == << pc, call, vis_lmk, patch_expert_responses, events >>

copyVars == << copy, lastWrite >>

vars == << storeVars, reads, lastRead, callVars, copyVars >>

NoCall == [fn |-> "none"]

\* ------------------------------------------------------------ the loaders
\* centers[i] = centers[i] * M_PI / 180.0
DegToRad(d) ==
    IF d >= 0 THEN (d * M_PI_milli) \div 180 ELSE -(((-d) * M_PI_milli) \div 180)

LoadedCenters(f) ==
    Vec(f.nv, LAMBDA v : [c \in 1..3 |-> DegToRad(FileCenterDeg(v)[c])])

LoadedVisibility(f) == Vec(f.nv, LAMBDA v : FileVisibility(f, v))

\* patches.resize(numberViews); patches[i].resize(numberOfPoints); patches[i][j].Read
LoadedPatches(f) ==
    Vec(f.nv, LAMBDA v :
        Vec(NumLmk, LAMBDA j :
            [kind |-> f.kind,
             biases_empty |-> IF f.kind = "cen" THEN ~FileHasBiases(f, v, j) ELSE FALSE]))

\* the scale the file stores: the files of scale s hold s + 1
LoadedScale(s) == s + 1

\* One loop of Read over a path list: the entry of every scale whose file opens
\* is replaced by what the loader reads, the others are left as they are.
LoadEach(vec, paths, F(_, _)) ==
    [s \in DOMAIN vec |->
        IF s \in DOMAIN paths /\ IsOpen(paths[s]) THEN F(paths[s], s) ELSE vec[s]]

\* the last path of the list whose file opens, or Missing
RECURSIVE LastOpen(_, _)
LastOpen(paths, k) ==
    IF k = 0 THEN Missing
    ELSE IF IsOpen(paths[k - 1]) THEN paths[k - 1]
    ELSE LastOpen(paths, k - 1)

\* sigma_components as Read_CCNF_patch_experts reads them: the files hold two
\* window sizes, 1 and 2, each with one basis matrix of window*window rows
LoadedSigmas(f) ==
    Vec(2, LAMBDA w : Vec(1, LAMBDA s : [rows |-> (w + 1) * (w + 1), data |-> 0]))

LoadedMirrorInds(f) == Vec(NumLmk, LAMBDA j : PairMirror(NumLmk, j))

LoadedMirrorViews(f) == Vec(f.nv, LAMBDA v : PairMirror(f.nv, v))

\* ------------------------------------------------------------------- Read
\* (variant of EarlyTermCount: one entry per landmark)
EarlyTermCountPerLandmark(c, ub) == NumLmk

\* the bound of the three early-termination loops, centers[0].size(); ub is what
\* the build makes of it when centers is empty
EarlyTermCount(c, ub) == IF c = EmptyVec THEN (IF ub = -1 THEN 0 ELSE ub) ELSE Size(c[0])

\* Patch_experts::Read.  ub is what the build makes of centers[0].size() when
\* centers is empty (no path of any representation was given) and an
\* early-termination path is: a crash (-1), or some count.
Read(svrL, ccnfL, cenL, early, ub) ==
    LET ns == Size(svrL)
        nc == Size(ccnfL)
        ne == Size(cenL)
        \* SVR: the arrays are resized to the SVR scale count whatever it is
        c1 == LoadEach(Resize(centers, ns, EmptyVec), svrL, LAMBDA f, s : LoadedCenters(f))
        v1 == LoadEach(Resize(visibilities, ns, EmptyVec), svrL, LAMBDA f, s : LoadedVisibility(f))
        s1 == LoadEach(Resize(patch_scaling, ns, 0), svrL, LAMBDA f, s : LoadedScale(s))
        svr1 == LoadEach(Resize(svr_expert_intensity, ns, EmptyVec), svrL,
                         LAMBDA f, s : LoadedPatches(f))
        \* CCNF experts override the SVR ones
        c2 == IF nc > 0
              THEN LoadEach(Resize(c1, nc, EmptyVec), ccnfL, LAMBDA f, s : LoadedCenters(f))
              ELSE c1
        v2 == IF nc > 0
              THEN LoadEach(Resize(v1, nc, EmptyVec), ccnfL, LAMBDA f, s : LoadedVisibility(f))
              ELSE v1
        s2 == IF nc > 0
              THEN LoadEach(Resize(s1, nc, 0), ccnfL, LAMBDA f, s : LoadedScale(s))
              ELSE s1
        ccnf2 == IF nc > 0
                 THEN LoadEach(Resize(ccnf_expert_intensity, nc, EmptyVec), ccnfL,
                               LAMBDA f, s : LoadedPatches(f))
                 ELSE ccnf_expert_intensity
        lastCcnf == LastOpen(ccnfL, nc)
        \* CEN experts override the SVR and CCNF ones
        c3 == IF ne > 0
              THEN LoadEach(Resize(c2, ne, EmptyVec), cenL, LAMBDA f, s : LoadedCenters(f))
              ELSE c2
        v3 == IF ne > 0
              THEN LoadEach(Resize(v2, ne, EmptyVec), cenL, LAMBDA f, s : LoadedVisibility(f))
              ELSE v2
        s3 == IF ne > 0
              THEN LoadEach(Resize(s2, ne, 0), cenL, LAMBDA f, s : LoadedScale(s))
              ELSE s2
        cen3 == IF ne > 0
                THEN LoadEach(Resize(cen_expert_intensity, ne, EmptyVec), cenL,
                              LAMBDA f, s : LoadedPatches(f))
                ELSE cen_expert_intensity
        lastCen == LastOpen(cenL, ne)
        undefinedCount == early /\ c3 = EmptyVec
        \* centers[0].size()
        count == IF ~early THEN 0 ELSE EarlyTermCount(c3, ub)
        pushed(list) == list \o [j \in 1..count |-> "read"]
    IN  /\ pc = "ready"
        /\ reads < MaxReads
        /\ IF undefinedCount THEN TRUE ELSE ub = 0
        /\ centers' = c3
        /\ visibilities' = v3
        /\ patch_scaling' = s3
        /\ svr_expert_intensity' = svr1
        /\ ccnf_expert_intensity' = ccnf2
        /\ cen_expert_intensity' = cen3
        /\ sigma_components' = IF IsOpen(lastCcnf) THEN LoadedSigmas(lastCcnf)
                                ELSE sigma_components
        /\ mirror_inds' = IF IsOpen(lastCen) THEN LoadedMirrorInds(lastCen) ELSE mirror_inds
        /\ mirror_views' = IF IsOpen(lastCen) THEN LoadedMirrorViews(lastCen) ELSE mirror_views
        /\ early_term_weights' = pushed(early_term_weights)
        /\ early_term_biases' = pushed(early_term_biases)
        /\ early_term_cutoffs' = pushed(early_term_cutoffs)
        /\ reads' = reads + 1
        /\ lastRead' = [fn |-> "Read", svr |-> svrL, ccnf |-> ccnfL, cen |-> cenL,
                        early |-> early, fresh |-> (reads = 0),
                        defined |-> ~undefinedCount,
                        onSvrOnly |-> /\ svr_expert_intensity # EmptyVec
                                      /\ ccnf_expert_intensity = EmptyVec
                                      /\ cen_expert_intensity = EmptyVec]
        /\ pc' = IF undefinedCount /\ ub = -1 THEN "crashed" ELSE "ready"
        /\ call' = NoCall
        /\ vis_lmk' = << >>
        /\ patch_expert_responses' = EmptyVec
        /\ events' = << >>
        /\ UNCHANGED copyVars

\* ------------------------------------------------------------- GetViewIdx
\* Patch_experts::nViews (Patch_experts.h): the number of centres of the scale
nViews(scale) == Size(centers[scale])

\* float d = v1*v1 + v2*v2 + v3*v3
SqDist(params_global, c) ==
    LET v1 == params_global[1] - c[1]
        v2 == params_global[2] - c[2]
        v3 == params_global[3] - c[3]
    IN  v1 * v1 + v2 * v2 + v3 * v3

\* (variant of Closer: a tie replaces the running best)
CloserOrEqual(k, d, dbest) == k = 0 \/ d <= dbest

\* if(i == 0 || d < dbest)
Closer(k, d, dbest) == k = 0 \/ d < dbest

RECURSIVE ViewLoop(_, _, _, _, _)
\* the for loop of GetViewIdx from view k on, with the running idx and dbest
ViewLoop(params_global, scale, k, idx, dbest) ==
    IF k >= nViews(scale) THEN idx
    ELSE LET d == SqDist(params_global, centers[scale][k])
         IN  IF Closer(k, d, dbest)
             THEN ViewLoop(params_global, scale, k + 1, k, d)
             ELSE ViewLoop(params_global, scale, k + 1, idx, dbest)

GetViewIdx(params_global, scale) == ViewLoop(params_global, scale, 0, 0, 0)

\* ---------------------------------------------- Collect_visible_landmarks
\* (variant of Pushes: frontal placeholders are not skipped)
PushesPlaceholders(vis, scale, view_id, n, j) ==
    /\ Size(vis[scale][view_id]) = n
    /\ vis[scale][view_id][j] # 0

\* (variant of Pushes: the visibility entry is not consulted)
PushesInvisible(vis, scale, view_id, n, j) ==
    /\ Size(vis[scale][view_id]) = n
    /\ IF cen_expert_intensity # EmptyVec
       THEN IF view_id = 0
            THEN ~cen_expert_intensity[scale][view_id][j].biases_empty
            ELSE TRUE
       ELSE TRUE

\* the conditions under which the loop body pushes landmark j
Pushes(vis, scale, view_id, n, j) ==
    /\ Size(vis[scale][view_id]) = n
    /\ vis[scale][view_id][j] # 0
    /\ IF cen_expert_intensity # EmptyVec
       THEN IF view_id = 0
            THEN ~cen_expert_intensity[scale][view_id][j].biases_empty
            ELSE TRUE
       ELSE TRUE

RECURSIVE CollectLoopFront(_, _, _, _, _, _)
\* (variant of CollectLoop: the landmark is put in front of the list)
CollectLoopFront(vis, scale, view_id, n, j, vis_out) ==
    IF j >= n THEN vis_out
    ELSE CollectLoopFront(vis, scale, view_id, n, j + 1,
                          IF Pushes(vis, scale, view_id, n, j)
                          THEN << j >> \o vis_out ELSE vis_out)

RECURSIVE CollectLoop(_, _, _, _, _, _)
\* the for loop of Collect_visible_landmarks from landmark j on
CollectLoop(vis, scale, view_id, n, j, vis_out) ==
    IF j >= n THEN vis_out
    ELSE CollectLoop(vis, scale, view_id, n, j + 1,
                     IF Pushes(vis, scale, view_id, n, j) THEN Append(vis_out, j) ELSE vis_out)

Collect_visible_landmarks(vis, scale, view_id, n) ==
    CollectLoop(vis, scale, view_id, n, 0, << >>)
\* ---------------------------------------------------------------- Response
\* what a response-map entry holds before a call writes it
Stale == [fn |-> "stale", expert |-> << >>, area |-> -1]

Garbage == [fn |-> "garbage", expert |-> << >>, area |-> -1]

use_ccnf == ccnf_expert_intensity # EmptyVec

use_cen == cen_expert_intensity # EmptyVec

\* is expert[scale][view_id][j] an element of the collection
HasExpert(expert, scale, view_id, j) ==
    /\ scale \in DOMAIN expert
    /\ view_id \in DOMAIN expert[scale]
    /\ j \in DOMAIN expert[scale][view_id]

\* the sigma components whose rows equal window_size*window_size (the last such)
RECURSIVE SelectSigma(_, _, _)
SelectSigma(window_size, w_size, found) ==
    IF w_size >= Size(sigma_components) THEN found
    ELSE SelectSigma(window_size, w_size + 1,
            IF /\ sigma_components[w_size] # EmptyVec
               /\ window_size * window_size = sigma_components[w_size][0].rows
            THEN sigma_components[w_size] ELSE found)

RECURSIVE SigmaLoop(_, _, _, _, _)
\* the ComputeSigmas loop of Response from landmark lmark on
SigmaLoop(scale, view_id, n, window_size, lmark) ==
    IF lmark >= n THEN << >>
    ELSE (IF visibilities[scale][view_id][lmark] # 0
          THEN << [fn |-> "ComputeSigmas", expert |-> << "ccnf", scale, view_id, lmark >>,
                   ind |-> lmark, writes |-> << >>] >>
          ELSE << >>)
         \o SigmaLoop(scale, view_id, n, window_size, lmark + 1)

\* (variant of Dispatch: CCNF is preferred to CEN)
DispatchCcnfFirst == IF use_ccnf THEN "ccnf" ELSE IF use_cen THEN "cen" ELSE "svr"

\* the branch of the dispatch (which collection the response is taken from)
Dispatch == IF use_cen THEN "cen" ELSE IF use_ccnf THEN "ccnf" ELSE "svr"

\* (variant of JointSlots: the second map is the one of landmark 0)
JointSlotsZero(ind, mirror_id) == << ind, 0 >>

\* the output maps the joint call of landmark ind is handed
JointSlots(ind, mirror_id) == << ind, mirror_id >>

\* (variant of MirrorExpert: the landmark's own index at the mirror view)
MirrorExpertOwnIndex(scale, view_id, ind) ==
    << "cen", scale, mirror_views[view_id], ind >>

\* the model the mirrored single response is called on:
\* cen_expert_intensity[scale][mirror_views.at<int>(view_id)][mirror_inds.at<int>(ind)]
MirrorExpert(scale, view_id, ind) ==
    << "cen", scale, mirror_views[view_id], mirror_inds[ind] >>

\* the response call the loop body makes for landmark ind (none, or one); the
\* CCNF branch's second call, ResponseOB into a local placeholder that is then
\* only printed, touches no response map and is not logged
IterEvent(scale, view_id, ind) ==
    IF Dispatch = "cen"
    THEN IF view_id = 0
         THEN IF ~cen_expert_intensity[scale][view_id][ind].biases_empty
              THEN LET mirror_id == mirror_inds[ind]
                   IN  IF mirror_id = ind
                       THEN << [fn |-> "ResponseSparse",
                                expert |-> << "cen", scale, view_id, ind >>,
                                ind |-> ind, writes |-> << ind >>] >>
                       ELSE << [fn |-> "ResponseSparse_mirror_joint",
                                expert |-> << "cen", scale, view_id, ind >>,
                                ind |-> ind, writes |-> JointSlots(ind, mirror_id)] >>
              ELSE << >>
         ELSE IF ~cen_expert_intensity[scale][view_id][ind].biases_empty
              THEN << [fn |-> "ResponseSparse",
                       expert |-> << "cen", scale, view_id, ind >>,
                       ind |-> ind, writes |-> << ind >>] >>
              ELSE << [fn |-> "ResponseSparse_mirror",
                       expert |-> MirrorExpert(scale, view_id, ind),
                       ind |-> ind, writes |-> << ind >>] >>
    ELSE IF Dispatch = "ccnf"
    THEN << [fn |-> "Response", expert |-> << "ccnf", scale, view_id, ind >>,
             ind |-> ind, writes |-> << ind >>] >>
    ELSE << [fn |-> "Response", expert |-> << "svr", scale, view_id, ind >>,
             ind |-> ind, writes |-> << ind >>] >>

RECURSIVE LoopEvents(_, _, _)
\* the response calls of the loop over the landmarks of lmks, in order
LoopEvents(scale, view_id, lmks) ==
    IF lmks = << >> THEN << >>
    ELSE IterEvent(scale, view_id, Head(lmks)) \o LoopEvents(scale, view_id, Tail(lmks))

RECURSIVE WriteSlots(_, _, _)
\* a response call fills each output map it is handed from that slot's own
\* area of interest
WriteSlots(resp, e, k) ==
    IF k > Len(e.writes) THEN resp
    ELSE WriteSlots([resp EXCEPT ![e.writes[k]] =
                        [fn |-> e.fn, expert |-> e.expert, area |-> e.writes[k]]],
                    e, k + 1)

RECURSIVE RunEvents(_, _)
\* the response array after the calls of es, made in order
RunEvents(resp, es) ==
    IF es = << >> THEN resp
    ELSE RunEvents(WriteSlots(resp, Head(es), 1), Tail(es))

\* Every element Response reads or writes exists (otherwise the call is
\* undefined behaviour: an index past the end of a vector or a matrix).
DefinedResponse(scale, params_global, n) ==
    /\ scale \in DOMAIN centers
    /\ LET view_id == GetViewIdx(params_global, scale)
       IN  /\ view_id \in DOMAIN visibilities[scale]
           /\ LET rows == Size(visibilities[scale][view_id])
                  visible == {j \in 0..(rows - 1) : visibilities[scale][view_id][j] # 0}
              IN  /\ use_ccnf =>
                        /\ n <= rows
                        /\ \A j \in visible : j < n =>
                              HasExpert(ccnf_expert_intensity, scale, view_id, j)
                  /\ (rows = n /\ use_cen /\ view_id = 0) =>
                        \A j \in visible : HasExpert(cen_expert_intensity, scale, view_id, j)
                  /\ rows = n =>
                        \A j \in visible :
                            CASE Dispatch = "cen" ->
                                    /\ HasExpert(cen_expert_intensity, scale, view_id, j)
                                    /\ IF ~cen_expert_intensity[scale][view_id][j].biases_empty
                                       THEN view_id = 0 =>
                                                /\ j \in DOMAIN mirror_inds
                                                /\ mirror_inds[j] \in 0..(n - 1)
                                       ELSE view_id # 0 =>
                                                /\ view_id \in DOMAIN mirror_views
                                                /\ j \in DOMAIN mirror_inds
                                                /\ HasExpert(cen_expert_intensity, scale,
                                                             mirror_views[view_id],
                                                             mirror_inds[j])
                              [] Dispatch = "ccnf" ->
                                    HasExpert(ccnf_expert_intensity, scale, view_id, j)
                              [] OTHER ->
                                    HasExpert(svr_expert_intensity, scale, view_id, j)

\* (variant of CallSequence: the landmark loop runs ahead of the sigma loop)
CallSequenceLoopFirst(sigma, loop) == loop \o sigma

\* the calls of one Response in the order the body makes them: the sigma loop
\* runs to its end, then the landmark loop starts (both are plain for loops)
CallSequence(sigma, loop) == sigma \o loop

\* Patch_experts::Response on a store that holds every element it reads
Response(scale, params_global, n, window_size) ==
    /\ pc = "ready"
    /\ DefinedResponse(scale, params_global, n)
    /\ LET view_id == GetViewIdx(params_global, scale)
           sigma == IF use_ccnf
                    THEN SigmaLoop(scale, view_id, n, window_size, 0)
                    ELSE << >>
           lmks == Collect_visible_landmarks(visibilities, scale, view_id, n)
           loop == LoopEvents(scale, view_id, lmks)
       IN  /\ call' = [fn |-> "Response", scale |-> scale, params_global |-> params_global,
                       n |-> n, window_size |-> window_size, view_id |-> view_id,
                       defined |-> TRUE,
                       sigma_components |-> IF use_ccnf
                                            THEN SelectSigma(window_size, 0, EmptyVec)
                                            ELSE EmptyVec]
           /\ vis_lmk' = lmks
           /\ events' = CallSequence(sigma, loop)
           /\ patch_expert_responses' = RunEvents(Vec(n, LAMBDA j : Stale), loop)
    /\ pc' = "responded"
    /\ UNCHANGED << storeVars, reads, lastRead, copyVars >>

\* Patch_experts::Response on a store that lacks an element it reads: the
\* build may crash, or return with any of the response maps overwritten.
ResponseUndefined(scale, params_global, n, window_size, crash, out) ==
    /\ pc = "ready"
    /\ ~DefinedResponse(scale, params_global, n)
    /\ call' = [fn |-> "Response", scale |-> scale, params_global |-> params_global,
                n |-> n, window_size |-> window_size, view_id |-> -1,
                defined |-> FALSE, sigma_components |-> EmptyVec]
    /\ vis_lmk' = << >>
    /\ events' = << >>
    /\ patch_expert_responses' = IF crash THEN Vec(n, LAMBDA j : Stale) ELSE out
    /\ pc' = IF crash THEN "crashed" ELSE "responded"
    /\ UNCHANGED << storeVars, reads, lastRead, copyVars >>

\* the caller is done with the response maps of the call (they are a local
\* of the fitting step, built anew for the next call)
Discard ==
    /\ pc = "responded"
    /\ pc' = "ready"
    /\ call' = NoCall
    /\ vis_lmk' = << >>
    /\ patch_expert_responses' = EmptyVec
    /\ events' = << >>
    /\ UNCHANGED << storeVars, reads, lastRead, copyVars >>

\* ------------------------------------------------- the public call actions
\* a call of GetViewIdx on its own
GetViewIdxCall(params_global, scale) ==
    /\ pc = "ready"
    /\ scale \in DOMAIN centers
    /\ call' = [fn |-> "GetViewIdx", params_global |-> params_global, scale |-> scale,
                result |-> GetViewIdx(params_global, scale)]
    /\ pc' = "responded"
    /\ UNCHANGED << storeVars, reads, lastRead, vis_lmk, patch_expert_responses, events,
                    copyVars >>

\* a call of Collect_visible_landmarks on its own, with the visibilities it is handed
CollectCall(vis, scale, view_id, n) ==
    /\ pc = "ready"
    /\ call' = [fn |-> "Collect_visible_landmarks", vis |-> vis, scale |-> scale,
                view_id |-> view_id, n |-> n]
    /\ vis_lmk' = Collect_visible_landmarks(vis, scale, view_id, n)
    /\ pc' = "responded"
    /\ UNCHANGED << storeVars, reads, lastRead, patch_expert_responses, events, copyVars >>

\* ------------------------------------------------------ the copy constructor
\* The matrices of the store, by member: cv::Mat is a header on a
\* reference-counted buffer; copying the header shares the buffer, clone()
\* makes a new one.
MatPaths(sig, vis, mi, mv) ==
    UNION {{<< "sigma_components", w, k >> : k \in DOMAIN sig[w]} : w \in DOMAIN sig}
    \cup UNION {{<< "visibilities", sc, v >> : v \in DOMAIN vis[sc]} : sc \in DOMAIN vis}
    \cup (IF mi = EmptyVec THEN {} ELSE {<< "mirror_inds" >>})
    \cup (IF mv = EmptyVec THEN {} ELSE {<< "mirror_views" >>})

\* the members the initialiser list copies by cv::Mat's copy constructor and
\* the body does not clone: their buffers are the buffers of other
SharedByCopy(other_mirror_inds, other_mirror_views) ==
    (IF other_mirror_inds = EmptyVec THEN {} ELSE {<< "mirror_inds" >>})
    \cup (IF other_mirror_views = EmptyVec THEN {} ELSE {<< "mirror_views" >>})

\* Patch_experts::Patch_experts(const Patch_experts& other), other being this store
CopyConstruct ==
    /\ pc = "ready"
    /\ copy = NoCall
    /\ copy' = [fn |-> "copy",
                patch_scaling |-> patch_scaling, centers |-> centers,
                svr_expert_intensity |-> svr_expert_intensity,
                ccnf_expert_intensity |-> ccnf_expert_intensity,
                cen_expert_intensity |-> cen_expert_intensity,
                early_term_weights |-> early_term_weights,
                early_term_biases |-> early_term_biases,
                early_term_cutoffs |-> early_term_cutoffs,
                mirror_inds |-> mirror_inds, mirror_views |-> mirror_views,
                \* sigma_components[i][j] = other.sigma_components[i][j].clone()
                sigma_components |-> sigma_components,
                \* visibilities[i][j] = other.visibilities[i][j].clone()
                visibilities |-> visibilities,
                shared |-> SharedByCopy(mirror_inds, mirror_views)]
    /\ UNCHANGED << storeVars, reads, lastRead, callVars, lastWrite >>

\* the matrix at path of a store's members, with one element overwritten
Overwritten(sig, vis, mi, mv, path) ==
    [sigma_components |->
        IF path[1] = "sigma_components"
        THEN [sig EXCEPT ![path[2]][path[3]].data = 1 - @] ELSE sig,
     visibilities |->
        IF path[1] = "visibilities"
        THEN [vis EXCEPT ![path[2]][path[3]][0] = 1 - @] ELSE vis,
     mirror_inds |-> IF path[1] = "mirror_inds" THEN [mi EXCEPT ![0] = @ + 1] ELSE mi,
     mirror_views |-> IF path[1] = "mirror_views" THEN [mv EXCEPT ![0] = @ + 1] ELSE mv]

\* the matrix-valued members of this store and of the copy
ThisMats ==
    [sigma_components |-> sigma_components, visibilities |-> visibilities,
     mirror_inds |-> mirror_inds, mirror_views |-> mirror_views]

CopyMats ==
    [sigma_components |-> copy.sigma_components, visibilities |-> copy.visibilities,
     mirror_inds |-> copy.mirror_inds, mirror_views |-> copy.mirror_views]

\* the writes in place made so far
WriteCount == IF lastWrite = NoCall THEN 0 ELSE lastWrite.count

\* An element of one matrix of one of the two stores is overwritten in place
\* (store is "this" or "copy"): the write lands in the buffer, and so in every
\* header on it.
WriteInPlace(store, path) ==
    /\ pc = "ready"
    /\ copy # NoCall
    /\ WriteCount < MaxWrites
    /\ path \in MatPaths(sigma_components, visibilities, mirror_inds, mirror_views)
    /\ LET both == path \in copy.shared
           t == Overwritten(sigma_components, visibilities, mirror_inds, mirror_views, path)
           c == Overwritten(copy.sigma_components, copy.visibilities, copy.mirror_inds,
                            copy.mirror_views, path)
           toThis == store = "this" \/ both
           toCopy == store = "copy" \/ both
       IN  /\ sigma_components' = IF toThis THEN t.sigma_components ELSE sigma_components
           /\ visibilities' = IF toThis THEN t.visibilities ELSE visibilities
           /\ mirror_inds' = IF toThis THEN t.mirror_inds ELSE mirror_inds
           /\ mirror_views' = IF toThis THEN t.mirror_views ELSE mirror_views
           /\ copy' = IF toCopy
                      THEN [copy EXCEPT !.sigma_components = c.sigma_components,
                                        !.visibilities = c.visibilities,
                                        !.mirror_inds = c.mirror_inds,
                                        !.mirror_views = c.mirror_views]
                      ELSE copy
           /\ lastWrite' = [fn |-> "write", store |-> store, path |-> path,
                            count |-> WriteCount + 1,
                            thisBefore |-> ThisMats, copyBefore |-> CopyMats]
    /\ UNCHANGED << centers, patch_scaling, svr_expert_intensity, ccnf_expert_intensity,
                    cen_expert_intensity, early_term_weights, early_term_biases,
                    early_term_cutoffs, reads, lastRead, callVars >>

\* ------------------------------------------------------- the specification
\* the state after construction: every collection empty
Init ==
    /\ centers = EmptyVec
    /\ visibilities = EmptyVec
    /\ patch_scaling = EmptyVec
    /\ svr_expert_intensity = EmptyVec
    /\ ccnf_expert_intensity = EmptyVec
    /\ cen_expert_intensity = EmptyVec
    /\ sigma_components = EmptyVec
    /\ mirror_inds = EmptyVec
    /\ mirror_views = EmptyVec
    /\ early_term_weights = << >>
    /\ early_term_biases = << >>
    /\ early_term_cutoffs = << >>
    /\ reads = 0
    /\ lastRead = NoCall
    /\ pc = "ready"
    /\ call = NoCall
    /\ vis_lmk = << >>
    /\ patch_expert_responses = EmptyVec
    /\ events = << >>
    /\ copy = NoCall
    /\ lastWrite = NoCall

\* the path lists one Read is handed: up to MaxScales paths, each naming a
\* model file of the representation or no readable file
PathLists(files) ==
    UNION {[0..(k - 1) -> files \cup {Missing}] : k \in 0..MaxScales}

\* the global parameters of a call: scale 1, the orientation of one of the
\* view centres of the files, no translation
Poses ==
    {[c \in 0..5 |-> IF c = 0 THEN 1
                     ELSE IF c \in 1..3 THEN DegToRad(FileCenterDeg(v)[c])
                     ELSE 0] : v \in 0..(MaxViews - 1)}

\* the landmark counts a shape model hands Response
PointCounts == (NumLmk - 1)..NumLmk

WindowSizes == 1..2

Next ==
    \/ \E svrL \in PathLists(SVRFiles), ccnfL \in PathLists(CCNFFiles),
          cenL \in PathLists(CENFiles), early \in BOOLEAN,
          ub \in -1..MaxViews :
            Read(svrL, ccnfL, cenL, early, ub)
    \/ \E scale \in 0..(MaxScales - 1), params_global \in Poses, n \in PointCounts,
          window_size \in WindowSizes :
            Response(scale, params_global, n, window_size)
    \/ \E scale \in 0..(MaxScales - 1), params_global \in Poses, n \in PointCounts,
          window_size \in WindowSizes, crash \in BOOLEAN,
          out \in [0..(NumLmk - 1) -> {Stale, Garbage}] :
            /\ crash => \A j \in DOMAIN out : out[j] = Stale
            /\ ResponseUndefined(scale, params_global, n, window_size, crash,
                              [j \in 0..(n - 1) |-> out[j]])
    \/ Discard

Spec == Init /\ [][Next]_vars

\* --------------------------------------------- the selector on its own
\* view centres of one scale: orientations on a small grid
GridCenters ==
    {<< 0, y, r >> : y \in (-MaxAngle)..MaxAngle, r \in 0..MaxAngle}

CenterLists == UNION {[0..(k - 1) -> GridCenters] : k \in 1..MaxViews}

GridPoses ==
    {[c \in 0..5 |-> IF c = 0 THEN 1 ELSE IF c \in 1..3 THEN rot[c] ELSE 0] :
        rot \in [1..3 -> (-MaxAngle)..MaxAngle]}

InitView ==
    /\ centers \in {Vec(1, LAMBDA sc : cs) : cs \in CenterLists}
    /\ visibilities = EmptyVec
    /\ patch_scaling = EmptyVec
    /\ svr_expert_intensity = EmptyVec
    /\ ccnf_expert_intensity = EmptyVec
    /\ cen_expert_intensity = EmptyVec
    /\ sigma_components = EmptyVec
    /\ mirror_inds = EmptyVec
    /\ mirror_views = EmptyVec
    /\ early_term_weights = << >>
    /\ early_term_biases = << >>
    /\ early_term_cutoffs = << >>
    /\ reads = 0
    /\ lastRead = NoCall
    /\ pc = "ready"
    /\ call = NoCall
    /\ vis_lmk = << >>
    /\ patch_expert_responses = EmptyVec
    /\ events = << >>
    /\ copy = NoCall
    /\ lastWrite = NoCall

NextView ==
    \/ \E params_global \in GridPoses : GetViewIdxCall(params_global, 0)
    \/ Discard

SpecView == InitView /\ [][NextView]_vars

\* -------------------------------------------- the collector on its own
\* CEN collections of one scale: any pattern of placeholders in the frontal
\* view, parameters everywhere else
CenStores ==
    {EmptyVec} \cup
    {Vec(1, LAMBDA sc : Vec(MaxViews, LAMBDA v : Vec(NumLmk, LAMBDA j :
        [kind |-> "cen", biases_empty |-> (v = 0 /\ j \in ph)]))) :
        ph \in SUBSET (0..(NumLmk - 1))}

\* visibility vectors of any length up to NumLmk, entries 0, 1 or 2
VisVectors == UNION {[0..(k - 1) -> 0..2] : k \in 0..NumLmk}

InitCollect ==
    /\ centers = EmptyVec
    /\ visibilities = EmptyVec
    /\ patch_scaling = EmptyVec
    /\ svr_expert_intensity = EmptyVec
    /\ ccnf_expert_intensity = EmptyVec
    /\ cen_expert_intensity \in CenStores
    /\ sigma_components = EmptyVec
    /\ mirror_inds = EmptyVec
    /\ mirror_views = EmptyVec
    /\ early_term_weights = << >>
    /\ early_term_biases = << >>
    /\ early_term_cutoffs = << >>
    /\ reads = 0
    /\ lastRead = NoCall
    /\ pc = "ready"
    /\ call = NoCall
    /\ vis_lmk = << >>
    /\ patch_expert_responses = EmptyVec
    /\ events = << >>
    /\ copy = NoCall
    /\ lastWrite = NoCall

NextCollect ==
    \/ \E vec \in VisVectors, view_id \in 0..(MaxViews - 1), n \in 0..NumLmk :
          CollectCall(Vec(1, LAMBDA sc : Vec(MaxViews, LAMBDA v :
                          IF v = view_id THEN vec ELSE [j \in DOMAIN vec |-> 0])),
                      0, view_id, n)
    \/ Discard

SpecCollect == InitCollect /\ [][NextCollect]_vars

\* ------------------------------------------------- the copy on its own
NextCopy ==
    \/ \E svrL \in PathLists(SVRFiles), ccnfL \in PathLists(CCNFFiles),
          cenL \in PathLists(CENFiles) :
            /\ reads = 0
            /\ copy = NoCall
            /\ Read(svrL, ccnfL, cenL, FALSE, 0)
    \/ CopyConstruct
    \/ \E store \in {"this", "copy"},
          path \in MatPaths(sigma_components, visibilities, mirror_inds, mirror_views) :
            WriteInPlace(store, path)

SpecCopy == Init /\ [][NextCopy]_vars

\* ------------------------------------ the CEN dispatch on a wider model
\* CEN files of up to MaxCenViews views
WideCENFiles == [kind : {"cen"}, nv : 1..MaxCenViews, hide : -1..(NumLmk - 1)]

\* the global parameters of a call: the orientation of one of the view centres
\* of these files
WidePoses ==
    {[c \in 0..5 |-> IF c = 0 THEN 1
                     ELSE IF c \in 1..3 THEN DegToRad(FileCenterDeg(v)[c])
                     ELSE 0] : v \in 0..(MaxCenViews - 1)}

\* one Read of a single CEN file on the fresh store, then calls of Response
NextCen ==
    \/ \E f \in WideCENFiles :
            /\ reads = 0
            /\ Read(EmptyVec, EmptyVec, Vec(1, LAMBDA s : f), FALSE, 0)
    \/ \E params_global \in WidePoses, n \in PointCounts, window_size \in WindowSizes :
            /\ reads = 1
            /\ Response(0, params_global, n, window_size)
    \/ Discard

SpecCen == Init /\ [][NextCen]_vars

\* ================================================================ properties
\* the response calls of the last Response, in order (ComputeSigmas left out)
ResponseEvents == SelectSeq(events, LAMBDA e : e.fn # "ComputeSigmas")

Responded == pc = "responded" /\ call.fn = "Response" /\ call.defined

\* the visibility vector at (scale, selected view) of the last Response
CallVisibility == visibilities[call.scale][call.view_id]

MarkedVisible(j) == j \in DOMAIN CallVisibility /\ CallVisibility[j] # 0

NoneOpens(paths) == \A s \in DOMAIN paths : ~IsOpen(paths[s])

\* ------------------------------------------------------------------- C1
\* C1: after any sequence of Read calls, every landmark Response processes is
\* dispatched to the CEN model when the CEN collection is non-empty, otherwise
\* to the CCNF model when the CCNF collection is non-empty, otherwise to the SVR
\* model; so once a CEN path is loaded on top of an SVR path, the calls use CEN
\* while the SVR data is still in the store.
C1_DispatchByPriority ==
    Responded =>
        LET kind == IF cen_expert_intensity # << >> THEN "cen"
                    ELSE IF ccnf_expert_intensity # << >> THEN "ccnf"
                    ELSE "svr"
        IN  /\ \A k \in DOMAIN ResponseEvents : ResponseEvents[k].expert[1] = kind
            /\ \A k \in DOMAIN vis_lmk :
                  \E m \in DOMAIN ResponseEvents : ResponseEvents[m].ind = vis_lmk[k]

\* a call after an SVR-only store was also given a CEN path: SVR data resident,
\* every response taken from CEN
C1_Witness ==
    /\ Responded
    /\ reads = 2
    /\ lastRead.onSvrOnly
    /\ ~NoneOpens(lastRead.cen)
    /\ svr_expert_intensity # << >> /\ svr_expert_intensity[0] # << >>
    /\ ResponseEvents # << >>
    /\ \A k \in DOMAIN ResponseEvents : ResponseEvents[k].expert[1] = "cen"

\* ------------------------------------------------------------------- C2
\* C2: when the model file of a representation is absent or unreadable, Read (on
\* a fresh store) leaves that representation's collection empty, and a following
\* Response is a defined call that takes its responses from the highest-priority
\* representation whose file did load.
C2_UnreadableLeavesEmpty ==
    (lastRead.fn = "Read" /\ lastRead.fresh /\ reads = 1) =>
        /\ NoneOpens(lastRead.cen) => cen_expert_intensity = << >>
        /\ NoneOpens(lastRead.ccnf) => ccnf_expert_intensity = << >>
        /\ (pc = "responded" /\ call.fn = "Response"
              /\ ~(NoneOpens(lastRead.cen) /\ NoneOpens(lastRead.ccnf)
                   /\ NoneOpens(lastRead.svr))) =>
              LET kind == IF ~NoneOpens(lastRead.cen) THEN "cen"
                          ELSE IF ~NoneOpens(lastRead.ccnf) THEN "ccnf"
                          ELSE "svr"
              IN  /\ call.defined
                  /\ \A k \in DOMAIN ResponseEvents : ResponseEvents[k].expert[1] = kind

\* ------------------------------------------------------------------- C3
\* the visibility vector a Collect_visible_landmarks call was handed
CollectVector == call.vis[call.scale][call.view_id]

\* the indices the claim lists: visible, and not a frontal CEN placeholder
ClaimedIndices ==
    {j \in 0..(call.n - 1) :
        /\ j \in DOMAIN CollectVector
        /\ CollectVector[j] # 0
        /\ \/ cen_expert_intensity = << >>
           \/ call.view_id # 0
           \/ ~cen_expert_intensity[call.scale][call.view_id][j].biases_empty}

\* the scenario of the claim: 3 landmarks, all visible, frontal view, CEN
\* parameters at landmarks 0 and 1, a placeholder at landmark 2
C3_Scenario ==
    /\ call.fn = "Collect_visible_landmarks"
    /\ call.n = 3 /\ call.view_id = 0
    /\ CollectVector = [j \in 0..2 |-> 1]
    /\ cen_expert_intensity # << >>
    /\ \A j \in 0..2 : cen_expert_intensity[call.scale][0][j].biases_empty <=> (j = 2)

\* C3 as stated: for every landmark count and visibility vector,
\* Collect_visible_landmarks returns exactly the indices below the count that are
\* marked visible and are not frontal CEN placeholders.
C3_Original ==
    call.fn = "Collect_visible_landmarks" => Range(vis_lmk) = ClaimedIndices

\* C3, amended: Collect_visible_landmarks returns exactly those indices when the
\* visibility vector has exactly landmarkCount rows, and the empty list when it
\* has any other number of rows; in the scenario it returns [0,1].
C3_ExactWhenRowsMatch ==
    call.fn = "Collect_visible_landmarks" =>
        /\ IF Size(CollectVector) = call.n
           THEN Range(vis_lmk) = ClaimedIndices
           ELSE vis_lmk = << >>
        /\ C3_Scenario => vis_lmk = << 0, 1 >>

C3_Witness == C3_Scenario /\ pc = "responded" /\ vis_lmk = << 0, 1 >>

\* ------------------------------------------------------------------- C4
\* C4: the list Collect_visible_landmarks returns is strictly ascending and each
\* of its indices has a nonzero entry in the visibility vector at (scale, view).
C4_AscendingAndVisible ==
    call.fn = "Collect_visible_landmarks" =>
        /\ \A k \in 1..(Len(vis_lmk) - 1) : vis_lmk[k] < vis_lmk[k + 1]
        /\ \A k \in DOMAIN vis_lmk :
              vis_lmk[k] \in DOMAIN CollectVector /\ CollectVector[vis_lmk[k]] # 0

\* a returned list of several landmarks with an invisible and a skipped one
C4_Witness ==
    /\ call.fn = "Collect_visible_landmarks"
    /\ Len(vis_lmk) >= 2
    /\ Len(vis_lmk) < call.n
    /\ cen_expert_intensity # << >>

\* ------------------------------------------------------------------- C5
\* squared distance of a pose's orientation (components 1-3) to a centre
C5_Dist(pose, c) ==
    (pose[1] - c[1]) * (pose[1] - c[1]) + (pose[2] - c[2]) * (pose[2] - c[2])
        + (pose[3] - c[3]) * (pose[3] - c[3])

\* C5: for a scale with at least one view GetViewIdx returns the lowest index in
\* [0, viewCount) whose centre minimises the squared distance to pose components
\* 1-3, and the result is the same whatever pose components 0, 4 and 5 are.
C5_LowestMinimiser ==
    call.fn = "GetViewIdx" =>
        LET cs == centers[call.scale]
            r == call.result
            pose == call.params_global
        IN  /\ r \in DOMAIN cs
            /\ \A v \in DOMAIN cs : C5_Dist(pose, cs[r]) <= C5_Dist(pose, cs[v])
            /\ \A v \in DOMAIN cs : v < r => C5_Dist(pose, cs[r]) < C5_Dist(pose, cs[v])
            /\ \A a, b, c \in {-MaxAngle, MaxAngle} :
                  GetViewIdx([pose EXCEPT ![0] = a, ![4] = b, ![5] = c], call.scale) = r

\* a tie between two views, settled for the first
C5_Witness ==
    /\ call.fn = "GetViewIdx"
    /\ \E v \in DOMAIN centers[call.scale] :
          /\ v > call.result
          /\ C5_Dist(call.params_global, centers[call.scale][v])
                = C5_Dist(call.params_global, centers[call.scale][call.result])

\* ------------------------------------------------------------------- C6
\* C6: when Response returns, every landmark the visibility vector at (scale,
\* selected view) marks visible has had its response map written in that call,
\* by its own iteration or as the mirror partner of a joint call (the vector
\* having one row per landmark of the shape model).
C6_VisibleAllWritten ==
    (Responded /\ Size(CallVisibility) = call.n) =>
        \A j \in 0..(call.n - 1) :
            MarkedVisible(j) =>
                /\ patch_expert_responses[j] # Stale
                /\ \E k \in DOMAIN ResponseEvents : j \in Range(ResponseEvents[k].writes)

\* ------------------------------------------------------------------- C7
\* C7 as stated: Response never writes the response map of a landmark the
\* visibility vector marks invisible, the mirror partner of a visible frontal
\* landmark under CEN included.
C7_Original ==
    Responded =>
        \A j \in DOMAIN patch_expert_responses :
            ~MarkedVisible(j) => patch_expert_responses[j] = Stale

\* is j the mirror partner a joint call of a visible frontal landmark fills
JointPartner(j) ==
    /\ cen_expert_intensity # << >>
    /\ call.view_id = 0
    /\ Size(CallVisibility) = call.n
    /\ \E q \in DOMAIN CallVisibility :
          /\ CallVisibility[q] # 0
          /\ ~cen_expert_intensity[call.scale][0][q].biases_empty
          /\ q # j
          /\ mirror_inds[q] = j

\* C7, amended: Response leaves the response map of an invisible landmark as it
\* was, except that under CEN at the frontal view the joint mirrored call of a
\* visible landmark with real parameters writes the map of its mirror partner
\* whether or not the partner is visible.
C7_InvisibleUntouchedButPartner ==
    Responded =>
        \A j \in DOMAIN patch_expert_responses :
            ~MarkedVisible(j) =>
                IF JointPartner(j)
                THEN patch_expert_responses[j].fn = "ResponseSparse_mirror_joint"
                ELSE patch_expert_responses[j] = Stale

\* a frontal CEN call with a joint call and an invisible landmark left as it was
C7_Witness ==
    /\ Responded
    /\ cen_expert_intensity # << >> /\ call.view_id = 0
    /\ \E k \in DOMAIN ResponseEvents : ResponseEvents[k].fn = "ResponseSparse_mirror_joint"
    /\ \E j \in DOMAIN patch_expert_responses :
          ~MarkedVisible(j) /\ patch_expert_responses[j] = Stale

\* ------------------------------------------------------------------- C8
\* the orders in which the iterations of the loop can run
Orders(k) == {f \in [1..k -> 1..k] : \A a, b \in 1..k : f[a] = f[b] => a = b}

C9_CopyIsDeep ==
    lastWrite.fn = "write" =>
        /\ lastWrite.store = "copy" => ThisMats = lastWrite.thisBefore
        /\ lastWrite.store = "this" => CopyMats = lastWrite.copyBefore

\* ------------------------------------------------------------------ C10
\* the landmark count of the loaded model: the rows of its visibility vectors
LoadedLandmarkCount ==
    IF visibilities # << >> /\ visibilities[0] # << >> THEN Size(visibilities[0][0]) ELSE 0

FreshRead == lastRead.fn = "Read" /\ lastRead.fresh /\ lastRead.defined /\ reads = 1

\* C10 as stated: after Read on a fresh store, with an early-termination path the
\* weight, bias and cutoff lists each hold one entry per landmark; with no path
\* all three are empty.
C10_Original ==
    FreshRead =>
        LET want == IF lastRead.early THEN LoadedLandmarkCount ELSE 0
        IN  /\ Len(early_term_weights) = want
            /\ Len(early_term_biases) = want
            /\ Len(early_term_cutoffs) = want

\* C10, amended: after Read on a fresh store that was handed at least one model
\* path, with an early-termination path the three lists each hold one entry per
\* view of scale 0 (centers[0].size(), whatever the landmark count); with no
\* path all three are empty.
C10_OnePerViewOfScale0 ==
    FreshRead =>
        LET want == IF lastRead.early THEN Size(centers[0]) ELSE 0
        IN  /\ Len(early_term_weights) = want
            /\ Len(early_term_biases) = want
            /\ Len(early_term_cutoffs) = want

\* a fresh load with an early-termination path and a model of several views
C10_Witness ==
    /\ FreshRead
    /\ lastRead.early
    /\ Len(early_term_weights) = MaxViews
    /\ Len(early_term_cutoffs) = Size(centers[0])
    /\ LoadedLandmarkCount = NumLmk

\* ------------------------------------------------------------------ C11
\* the positions in the call log of the ComputeSigmas calls / the response calls
SigmaPositions == {k \in DOMAIN events : events[k].fn = "ComputeSigmas"}

ResponsePositions == {k \in DOMAIN events : events[k].fn # "ComputeSigmas"}

\* C11: when CCNF is the representation the responses are taken from, then in
\* every Response that makes a response call, ComputeSigmas has been called on
\* the CCNF model of every landmark marked visible at (scale, selected view),
\* and every ComputeSigmas call has returned, before the first response call is
\* made (the calls are sequential: a call earlier in the log has returned).
C11_SigmasBeforeResponses ==
    (Responded /\ Dispatch = "ccnf" /\ ResponsePositions # {}) =>
        /\ \A j \in DOMAIN CallVisibility :
              CallVisibility[j] # 0 =>
                  \E k \in SigmaPositions :
                      /\ events[k].expert = << "ccnf", call.scale, call.view_id, j >>
                      /\ \A r \in ResponsePositions : k < r
        /\ \A k \in SigmaPositions, r \in ResponsePositions : k < r

\* a CCNF call at a view that hides a landmark: several precomputations, then
\* the response calls of the same landmarks
C11_Witness ==
    /\ Responded
    /\ Dispatch = "ccnf"
    /\ Cardinality(SigmaPositions) >= 2
    /\ Cardinality(ResponsePositions) = Cardinality(SigmaPositions)
    /\ \E j \in DOMAIN CallVisibility : CallVisibility[j] = 0

\* ------------------------------------------------------------------ C12
\* the model the response of landmark i is taken from holds real parameters
HasRealParameters(i) ==
    ~cen_expert_intensity[call.scale][call.view_id][i].biases_empty

\* the response call the four cases name for landmark i of the list
CenCaseCall(i) ==
    IF call.view_id = 0
    THEN IF mirror_inds[i] = i
         THEN [fn |-> "ResponseSparse",
               expert |-> << "cen", call.scale, call.view_id, i >>,
               slots |-> {i}]
         ELSE [fn |-> "ResponseSparse_mirror_joint",
               expert |-> << "cen", call.scale, call.view_id, i >>,
               slots |-> {i, mirror_inds[i]}]
    ELSE IF HasRealParameters(i)
         THEN [fn |-> "ResponseSparse",
               expert |-> << "cen", call.scale, call.view_id, i >>,
               slots |-> {i}]
         ELSE [fn |-> "ResponseSparse_mirror",
               expert |-> << "cen", call.scale, mirror_views[call.view_id],
                             mirror_inds[i] >>,
               slots |-> {i}]

\* C12: when CEN is the representation the responses are taken from, every
\* landmark of the list Collect_visible_landmarks returned triggers exactly one
\* response call, and no other call is made. At the frontal view a landmark that
\* is its own mirror gets ResponseSparse on its own model; one with a mirror
\* partner gets one ResponseSparse_mirror_joint on its own model that fills its
\* slot and its partner's. At another view a landmark with real parameters gets
\* ResponseSparse on its own model; a placeholder gets ResponseSparse_mirror on
\* the model at (scale, mirror_views[view], mirror_inds[i]), which fills only
\* slot i.
C12_OneCallPerLandmarkByCase ==
    (Responded /\ Dispatch = "cen") =>
        /\ Len(ResponseEvents) = Len(vis_lmk)
        /\ \A k \in DOMAIN vis_lmk :
              LET i == vis_lmk[k]
                  mine == {m \in DOMAIN ResponseEvents : ResponseEvents[m].ind = i}
                  want == CenCaseCall(i)
              IN  /\ Cardinality(mine) = 1
                  /\ \A m \in mine :
                        /\ ResponseEvents[m].fn = want.fn
                        /\ ResponseEvents[m].expert = want.expert
                        /\ Range(ResponseEvents[m].writes) = want.slots
                        /\ Len(ResponseEvents[m].writes) = Cardinality(want.slots)
                  /\ \A j \in want.slots :
                        /\ patch_expert_responses[j].fn = want.fn
                        /\ patch_expert_responses[j].expert = want.expert

\* both frontal cases in one call: a self-mirrored landmark and a joint call
C12_FrontalCases ==
    /\ Responded /\ Dispatch = "cen" /\ call.view_id = 0
    /\ \E k \in DOMAIN ResponseEvents : ResponseEvents[k].fn = "ResponseSparse"
    /\ \E k \in DOMAIN ResponseEvents : ResponseEvents[k].fn = "ResponseSparse_mirror_joint"

\* a placeholder of a profile view, answered from the model of the other view of
\* its pair at its mirror landmark
C12_Witness ==
    /\ Responded /\ Dispatch = "cen" /\ call.view_id # 0
    /\ mirror_views[call.view_id] # call.view_id
    /\ \E k \in DOMAIN ResponseEvents :
          /\ ResponseEvents[k].fn = "ResponseSparse_mirror"
          /\ ResponseEvents[k].expert[3] # call.view_id
          /\ ResponseEvents[k].expert[4] # ResponseEvents[k].ind
====
